---- MODULE Spec2Model ----
\* Storage gateway of the course-content feature (edtech/courses/storage.py):
\* upload_bytes and signed_url, two pass-through calls to a hosted object
\* storage service through one module-level client.
EXTENDS Integers, Sequences, FiniteSets, TLC

VARIABLES
    settings,   \* django.conf.settings: the three keys the module reads
    client,     \* the module-level _client
    store,      \* the storage service: (bucket, path) -> stored payload or None
    uploaded,   \* history: (bucket, path) -> payload of the latest successful upload
    last        \* the latest call: its arguments, its requests and its outcome

vars == <<settings, client, store, uploaded, last>>

\* ---------------------------------------------------------------- values

\* Python's None, and a present value, as sequences of length 0 and 1.
None == <<>>

Some(x) == <<x>>

\* Byte payloads callers upload (opaque blobs).
Data == {"%PDF-1", "%PDF-2"}

\* Object paths callers pass, the empty string included.
Paths == {"", "a.pdf"}

\* Buckets that exist in the storage service.
BucketNames == {"course-pdfs", "archive"}

\* The bucket argument as callers pass it: omitted (None), empty, or a name.
BucketArgs == {None, Some("")} \cup {Some(b) : b \in BucketNames}

\* Largest expires_sec callers pass explicitly.
MaxExpires == 1

\* The expires_sec argument as callers pass it: omitted, or an integer (0 included).
ExpiresArgs == {None} \cup {Some(t) : t \in 0..MaxExpires}

\* Storage projects the settings can point at: a service URL with its credential.
Projects ==
    {[SUPABASE_URL |-> "https://a.supabase.co", SUPABASE_SERVICE_ROLE |-> "role-key-a"],
     [SUPABASE_URL |-> "https://b.supabase.co", SUPABASE_SERVICE_ROLE |-> "role-key-b"]}

\* The settings the process starts with.
StartupSettings ==
    [SUPABASE_URL |-> "https://a.supabase.co",
     SUPABASE_SERVICE_ROLE |-> "role-key-a",
     SUPABASE_BUCKET |-> "course-pdfs"]

\* Keys of the create_signed_url response that signed_url looks at.
Keys == {"signedURL", "signed_url"}

\* URL strings a response can carry under a key (the empty string included).
Urls == {"", "https://s/1", "https://s/2"}

\* Every response dict over the two keys: each key absent or carrying a string.
Responses == UNION {[S -> Urls] : S \in SUBSET Keys}

\* A response that carries a non-empty URL under at least one key.
WellFormed == {r \in Responses : \E k \in DOMAIN r : r[k] # ""}

Malformed == Responses \ WellFormed

\* Ways the service fails a request regardless of its content.
UploadFaults == {"quota"}

SignFaults == {"network"}

\* ------------------------------------------------------ Python semantics

\* bool(v) of an optional string: None and "" are falsy.
Truthy(v) == v # None /\ v[1] # ""

\* x or y
Or(x, y) == IF Truthy(x) THEN x ELSE y

\* dict.get(key): the value, or None when the key is absent.
Get(res, k) == IF k \in DOMAIN res THEN Some(res[k]) ELSE None

\* ------------------------------------------------------- storage service

\* supabase create_client(url, key): the client keeps what it was given.
create_client(url, key) == [url |-> url, key |-> key]

\* The object stored at (bucket, path), None when there is none.
Object(s, bucket, path) ==
    IF <<bucket, path>> \in DOMAIN s THEN s[<<bucket, path>>] ELSE None

\* storage.from_(bucket).upload(path, data, options) at the service: a fault
\* fails the request; an occupied path is a duplicate unless upsert is asked.
StorageUpload(s, req, fault) ==
    IF fault # "none"
    THEN [error |-> fault, store |-> s]
    ELSE IF <<req.bucket, req.path>> \notin DOMAIN s
    THEN [error |-> "bucket_not_found", store |-> s]
    ELSE IF Object(s, req.bucket, req.path) # None /\ ~req.upsert
    THEN [error |-> "duplicate", store |-> s]
    ELSE [error |-> "", store |-> [s EXCEPT ![<<req.bucket, req.path>>] = req.body]]

\* What the service can do with one create_signed_url request, its responses
\* taken from rs: fail it, answer it malformed, or answer it well-formed.
SignOracles(rs) ==
    {[fault |-> f, res |-> <<>>] : f \in SignFaults}
        \cup {[fault |-> "malformed", res |-> r] : r \in rs \cap Malformed}
        \cup {[fault |-> "none", res |-> r] : r \in rs \cap WellFormed}

\* The responses the service gives in ordinary operation: one per key spelling
\* (with different URLs), and one carrying neither key.
UsualResponses ==
    {<<>>, [signedURL |-> "https://s/1"], [signed_url |-> "https://s/2"]}

\* storage.from_(bucket).create_signed_url(path, expires) at the service: a
\* fault fails the request, a missing object is not found, otherwise the
\* response dict. The stored objects are not touched.
StorageCreateSignedUrl(s, req, svc) ==
    IF svc.fault \in SignFaults
    THEN [error |-> svc.fault, res |-> <<>>]
    ELSE IF svc.fault = "malformed"
    THEN [error |-> "", res |-> svc.res]
    ELSE IF Object(s, req.bucket, req.path) = None
    THEN [error |-> "not_found", res |-> <<>>]
    ELSE [error |-> "", res |-> svc.res]

\* ------------------------------------------------------------ storage.py

\* signed_url's default for expires_sec.
DefaultExpires == 60

\* Variant: only an omitted bucket (None) falls back to the default.
DefaultBucket_NoneOnly(bucket) ==
    IF bucket = None THEN settings.SUPABASE_BUCKET ELSE bucket[1]

\* Variant: the default bucket is the one the settings held at import.
DefaultBucket_AtStartup(bucket) ==
    Or(bucket, Some(StartupSettings.SUPABASE_BUCKET))[1]

\* bucket = bucket or settings.SUPABASE_BUCKET
DefaultBucket(bucket) == Or(bucket, Some(settings.SUPABASE_BUCKET))[1]

\* Variant: no upsert asked.
FileOptions_NoUpsert == [upsert |-> FALSE]

\* The options upload_bytes passes: {"upsert": True}.
FileOptions == [upsert |-> TRUE]

\* The request upload_bytes sends through the client.
UploadRequest(path_in_bucket, data, bucket) ==
    [method |-> "upload", client |-> client, bucket |-> DefaultBucket(bucket),
     path |-> path_in_bucket, body |-> Some(data), upsert |-> FileOptions.upsert,
     expires |-> None]

\* The request signed_url sends through the client.
SignRequest(path_in_bucket, expires_sec, bucket) ==
    [method |-> "create_signed_url", client |-> client,
     bucket |-> DefaultBucket(bucket), path |-> path_in_bucket, body |-> None,
     upsert |-> FALSE, expires |-> Some(expires_sec)]

\* Variant: only the signedURL spelling is read.
ParseSignedUrl_OneSpelling(res) == Get(res, "signedURL")

\* res.get("signedURL") or res.get("signed_url")
ParseSignedUrl(res) == Or(Get(res, "signedURL"), Get(res, "signed_url"))

\* Variant: a failed upload is sent a second time and its error is swallowed.
upload_bytes_Retry(path_in_bucket, data, bucket, fault) ==
    LET req == UploadRequest(path_in_bucket, data, bucket)
        r == StorageUpload(store, req, fault)
        r2 == StorageUpload(store, req, "none")
    IN  IF r.error # ""
        THEN [outcome |-> "returned", error |-> "", ret |-> Some(path_in_bucket),
              reqs |-> <<req, req>>, res |-> <<>>, store |-> r2.store]
        ELSE [outcome |-> "returned", error |-> "", ret |-> Some(path_in_bucket),
              reqs |-> <<req>>, res |-> <<>>, store |-> r.store]

\* Variant: the bucket-qualified key is returned instead of the path.
upload_bytes_ReturnsKey(path_in_bucket, data, bucket, fault) ==
    LET req == UploadRequest(path_in_bucket, data, bucket)
        r == StorageUpload(store, req, fault)
    IN  IF r.error # ""
        THEN [outcome |-> "raised", error |-> r.error, ret |-> None,
              reqs |-> <<req>>, res |-> <<>>, store |-> r.store]
        ELSE [outcome |-> "returned", error |-> "",
              ret |-> Some(req.bucket \o "/" \o path_in_bucket),
              reqs |-> <<req>>, res |-> <<>>, store |-> r.store]

\* Variant: the payload is also written to the default bucket.
upload_bytes_Mirror(path_in_bucket, data, bucket, fault) ==
    LET req == UploadRequest(path_in_bucket, data, bucket)
        r == StorageUpload(store, req, fault)
        req2 == UploadRequest(path_in_bucket, data, None)
        r2 == StorageUpload(r.store, req2, fault)
    IN  IF r.error # ""
        THEN [outcome |-> "raised", error |-> r.error, ret |-> None,
              reqs |-> <<req>>, res |-> <<>>, store |-> r.store]
        ELSE [outcome |-> "returned", error |-> "", ret |-> Some(path_in_bucket),
              reqs |-> <<req>>, res |-> <<>>, store |-> r2.store]

\* upload_bytes(path_in_bucket, data, bucket): one upload request; an error of
\* the service is raised to the caller, otherwise the path is returned.
upload_bytes(path_in_bucket, data, bucket, fault) ==
    LET req == UploadRequest(path_in_bucket, data, bucket)
        r == StorageUpload(store, req, fault)
    IN  IF r.error # ""
        THEN [outcome |-> "raised", error |-> r.error, ret |-> None,
              reqs |-> <<req>>, res |-> <<>>, store |-> r.store]
        ELSE [outcome |-> "returned", error |-> "", ret |-> Some(path_in_bucket),
              reqs |-> <<req>>, res |-> <<>>, store |-> r.store]

\* Variant: the bucket argument is ignored, the default bucket is always used.
signed_url_IgnoresBucket(path_in_bucket, expires_sec, bucket, svc) ==
    LET req == SignRequest(path_in_bucket, expires_sec, None)
        r == StorageCreateSignedUrl(store, req, svc)
    IN  IF r.error # ""
        THEN [outcome |-> "raised", error |-> r.error, ret |-> None,
              reqs |-> <<req>>, res |-> <<>>, store |-> store]
        ELSE [outcome |-> "returned", error |-> "", ret |-> ParseSignedUrl(r.res),
              reqs |-> <<req>>, res |-> r.res, store |-> store]

\* Variant: an empty path or a non-positive expiry is refused before any request.
signed_url_Validating(path_in_bucket, expires_sec, bucket, svc) ==
    LET req == SignRequest(path_in_bucket, expires_sec, bucket)
        r == StorageCreateSignedUrl(store, req, svc)
    IN  IF path_in_bucket = "" \/ expires_sec <= 0
        THEN [outcome |-> "raised", error |-> "ValueError", ret |-> None,
              reqs |-> <<>>, res |-> <<>>, store |-> store]
        ELSE IF r.error # ""
        THEN [outcome |-> "raised", error |-> r.error, ret |-> None,
              reqs |-> <<req>>, res |-> <<>>, store |-> store]
        ELSE [outcome |-> "returned", error |-> "", ret |-> ParseSignedUrl(r.res),
              reqs |-> <<req>>, res |-> r.res, store |-> store]

\* Variant: the URL of the previous identical call is remembered and returned.
signed_url_Cached(path_in_bucket, expires_sec, bucket, svc) ==
    LET req == SignRequest(path_in_bucket, expires_sec, bucket)
        r == StorageCreateSignedUrl(store, req, svc)
    IN  IF /\ last.op = "signed_url"
           /\ last.outcome = "returned"
           /\ last.reqs = <<req>>
        THEN [outcome |-> "returned", error |-> "", ret |-> last.ret,
              reqs |-> <<>>, res |-> <<>>, store |-> store]
        ELSE IF r.error # ""
        THEN [outcome |-> "raised", error |-> r.error, ret |-> None,
              reqs |-> <<req>>, res |-> <<>>, store |-> store]
        ELSE [outcome |-> "returned", error |-> "", ret |-> ParseSignedUrl(r.res),
              reqs |-> <<req>>, res |-> r.res, store |-> store]

\* signed_url(path_in_bucket, expires_sec, bucket): one create_signed_url
\* request; an error of the service is raised, otherwise the response is parsed.
signed_url(path_in_bucket, expires_sec, bucket, svc) ==
    LET req == SignRequest(path_in_bucket, expires_sec, bucket)
        r == StorageCreateSignedUrl(store, req, svc)
    IN  IF r.error # ""
        THEN [outcome |-> "raised", error |-> r.error, ret |-> None,
              reqs |-> <<req>>, res |-> <<>>, store |-> store]
        ELSE [outcome |-> "returned", error |-> "", ret |-> ParseSignedUrl(r.res),
              reqs |-> <<req>>, res |-> r.res, store |-> store]

\* --------------------------------------------------------- state machine

\* No call made yet.
NoCall ==
    [op |-> "none", path |-> "", data |-> None, bucket |-> None, expires |-> None,
     fault |-> "none", old |-> None,
     outcome |-> "none", error |-> "", ret |-> None, reqs |-> <<>>, res |-> <<>>]

\* Module import: the client is created from the settings; the buckets are empty.
Init ==
    /\ settings = StartupSettings
    /\ client = create_client(settings.SUPABASE_URL, settings.SUPABASE_SERVICE_ROLE)
    /\ store = [k \in BucketNames \X Paths |-> None]
    /\ uploaded = [k \in BucketNames \X Paths |-> None]
    /\ last = NoCall

\* The bucket a call with bucket argument b is about, under default bucket cfg.
CallBucket(b, cfg) == IF b = None \/ b = Some("") THEN cfg ELSE b[1]

\* A caller calls upload_bytes(path, data[, bucket]), with inputs from the sets given.
UploadBytesWith(paths, datas, buckets, faults) ==
    \E path \in paths, data \in datas, bucket \in buckets, fault \in faults :
        \E r \in {upload_bytes(path, data, bucket, fault)} :
            \E key \in {<<CallBucket(bucket, settings.SUPABASE_BUCKET), path>>} :
                /\ store' = r.store
                /\ uploaded' = IF r.outcome = "returned"
                               THEN [uploaded EXCEPT ![key] = Some(data)]
                               ELSE uploaded
                /\ last' = [op |-> "upload_bytes", path |-> path, data |-> Some(data),
                            bucket |-> bucket, expires |-> None,
                            fault |-> fault, old |-> store[key],
                            outcome |-> r.outcome, error |-> r.error, ret |-> r.ret,
                            reqs |-> r.reqs, res |-> r.res]
                /\ UNCHANGED <<settings, client>>

\* A caller calls signed_url(path[, expires_sec][, bucket]); expires_sec is 60
\* when the caller gives none.
SignedUrlWith(paths, expiries, buckets, oracles) ==
    \E path \in paths, expires \in expiries, bucket \in buckets, svc \in oracles :
        \E r \in {signed_url(path, IF expires = None THEN DefaultExpires ELSE expires[1],
                             bucket, svc)} :
            /\ store' = r.store
            /\ last' = [op |-> "signed_url", path |-> path, data |-> None,
                        bucket |-> bucket, expires |-> expires,
                        fault |-> svc.fault, old |-> None,
                        outcome |-> r.outcome, error |-> r.error, ret |-> r.ret,
                        reqs |-> r.reqs, res |-> r.res]
            /\ UNCHANGED <<settings, client, uploaded>>

UploadBytes == UploadBytesWith(Paths, Data, BucketArgs, {"none"} \cup UploadFaults)

SignedUrl == SignedUrlWith(Paths, ExpiresArgs, BucketArgs, SignOracles(UsualResponses))

\* The process assigns settings.SUPABASE_BUCKET after startup.
ChangeBucketSetting ==
    \E b \in BucketNames :
        /\ settings' = [settings EXCEPT !.SUPABASE_BUCKET = b]
        /\ UNCHANGED <<client, store, uploaded, last>>

\* The process assigns settings.SUPABASE_URL and SUPABASE_SERVICE_ROLE after startup.
ChangeProjectSetting ==
    \E p \in Projects :
        /\ settings' = [settings EXCEPT !.SUPABASE_URL = p.SUPABASE_URL,
                                        !.SUPABASE_SERVICE_ROLE = p.SUPABASE_SERVICE_ROLE]
        /\ UNCHANGED <<client, store, uploaded, last>>

Next == UploadBytes \/ SignedUrl \/ ChangeBucketSetting \/ ChangeProjectSetting

Spec == Init /\ [][Next]_vars

\* The response-parsing study: uploads into the default bucket, and signed_url
\* calls that the service answers with any response dict over the two keys.
UploadDefault == UploadBytesWith(Paths, Data, {None}, {"none"})

SignedUrlAnyResponse ==
    SignedUrlWith(Paths, ExpiresArgs, {None}, SignOracles(Responses))

ParseNext == UploadDefault \/ SignedUrlAnyResponse

ParseSpec == Init /\ [][ParseNext]_vars

\* ---------------------------------------------------------------- claims

\* The expiry a signed_url call asks for: the caller's, 60 when none is given.
Ttl(c) == IF c.expires = None THEN 60 ELSE c.expires[1]

\* The errors the storage service answers a request with.
ServiceErrors ==
    UploadFaults \cup SignFaults \cup {"not_found", "duplicate", "bucket_not_found"}

\* C1: the object stored at every (bucket, path) is the payload of the latest
\* successful upload_bytes to it, and an upload the service does not fail
\* succeeds even onto an occupied path (it is never rejected as a duplicate).
C1_Overwrite ==
    /\ store = uploaded
    /\ (last.op = "upload_bytes" /\ last.fault = "none")
           => /\ last.outcome = "returned"
              /\ store[<<CallBucket(last.bucket, last.reqs[1].bucket), last.path>>]
                     = last.data

\* An upload has replaced a different payload at an occupied path.
C1_Witness ==
    /\ last.op = "upload_bytes"
    /\ last.outcome = "returned"
    /\ last.old # None
    /\ last.old # last.data
    /\ store[<<last.reqs[1].bucket, last.path>>] = last.data

\* C2 as stated: every explicitly passed bucket, the empty string included, is
\* exactly the bucket the service is addressed with.
C2_Original ==
    (last.op # "none" /\ last.bucket # None)
        => \A i \in 1..Len(last.reqs) : last.reqs[i].bucket = last.bucket[1]

\* C2, amended: every call addresses the configured default bucket when the
\* bucket is omitted or empty, and exactly the passed bucket otherwise.
C2_BucketSelection ==
    [][last' # last
           => /\ Len(last'.reqs) = 1
              /\ last'.reqs[1].bucket
                     = IF last'.bucket = None \/ last'.bucket = Some("")
                       THEN settings.SUPABASE_BUCKET
                       ELSE last'.bucket[1]]_vars

\* A call that passed the empty string addressed the default bucket, after that
\* default had been reassigned.
C2_Witness ==
    /\ last.op = "signed_url"
    /\ last.bucket = Some("")
    /\ Len(last.reqs) = 1
    /\ last.reqs[1].bucket = "archive"

\* C3: signed_url returns the URL the response carries under signedURL or under
\* signed_url, and returns None or the empty string, without raising, when the
\* response carries no URL.
C3_ResponseParsing ==
    (last.op = "signed_url" /\ last.fault \in {"none", "malformed"}
        /\ last.error # "not_found")
        => /\ last.outcome = "returned"
           /\ (DOMAIN last.res = {}) => last.ret = None
           /\ \A k \in Keys :
                  (DOMAIN last.res = {k} /\ last.res[k] # "")
                      => last.ret = Some(last.res[k])
           /\ (\E k \in DOMAIN last.res : last.res[k] # "")
                  => \E k \in DOMAIN last.res :
                         last.res[k] # "" /\ last.ret = Some(last.res[k])
           /\ (\A k \in DOMAIN last.res : last.res[k] = "")
                  => (last.ret = None \/ last.ret = Some(""))

\* signed_url returned the URL of a response that used the signed_url spelling.
C3_Witness ==
    /\ last.op = "signed_url"
    /\ last.outcome = "returned"
    /\ DOMAIN last.res = {"signed_url"}
    /\ last.ret = Some("https://s/2")

\* C4: when the service fails the request of a call, that call raises the same
\* error, returns no value, and has sent exactly one request.
C4_ErrorPropagation ==
    /\ (last.op # "none" /\ last.fault \in UploadFaults \cup SignFaults)
           => /\ last.outcome = "raised"
              /\ last.error = last.fault
              /\ last.ret = None
              /\ Len(last.reqs) = 1
    /\ (last.op = "signed_url" /\ last.fault = "none"
            /\ store[<<CallBucket(last.bucket, last.reqs[1].bucket), last.path>>] = None)
           => /\ last.outcome = "raised"
              /\ last.error = "not_found"
              /\ last.ret = None
              /\ Len(last.reqs) = 1
    /\ last.outcome = "raised" => (last.error \in ServiceErrors /\ last.ret = None)

\* An upload failed by the service raised the service's error.
C4_Witness ==
    /\ last.op = "upload_bytes"
    /\ last.fault = "quota"
    /\ last.outcome = "raised"
    /\ last.error = "quota"

\* C5: an upload_bytes(path, data, bucket) that returned, followed by
\* signed_url(path, ttl, bucket) with ttl > 0 about the bucket the upload went
\* to and not failed by the service, returns a non-empty URL.
C5_UploadThenSign ==
    [][(/\ last.op = "upload_bytes"
        /\ last.outcome = "returned"
        /\ last'.op = "signed_url"
        /\ last'.path = last.path
        /\ last'.bucket = last.bucket
        /\ Ttl(last') > 0
        /\ last'.fault = "none"
        /\ CallBucket(last.bucket, settings.SUPABASE_BUCKET) = last.reqs[1].bucket)
           => /\ last'.outcome = "returned"
              /\ last'.ret # None
              /\ last'.ret # Some("")]_vars

\* signed_url returned a non-empty URL for an uploaded path, with an explicit
\* bucket and a positive expiry.
C5_Witness ==
    /\ last.op = "signed_url"
    /\ last.outcome = "returned"
    /\ last.bucket = Some("archive")
    /\ Ttl(last) > 0
    /\ uploaded[<<"archive", last.path>>] # None
    /\ last.ret = Some("https://s/1")

\* C6 as stated: a call with an empty path, or a signed_url with ttl <= 0, is
\* not passed to the storage service.
C6_Original ==
    (last.op # "none" /\ (last.path = "" \/ (last.op = "signed_url" /\ Ttl(last) <= 0)))
        => last.reqs = <<>>

\* C6, amended: a call with an empty path, or a signed_url with ttl <= 0, is
\* passed to the storage service as one ordinary request carrying the path and
\* the ttl unchanged; only the service can reject it.
C6_PassThrough ==
    (last.op # "none" /\ (last.path = "" \/ (last.op = "signed_url" /\ Ttl(last) <= 0)))
        => /\ Len(last.reqs) = 1
           /\ last.reqs[1].path = last.path
           /\ last.op = "signed_url" => last.reqs[1].expires = Some(Ttl(last))
           /\ last.outcome = "raised" => last.error \in ServiceErrors

\* signed_url with an empty path and ttl 0 reached the service.
C6_Witness ==
    /\ last.op = "signed_url"
    /\ last.path = ""
    /\ last.expires = Some(0)
    /\ Len(last.reqs) = 1
    /\ last.reqs[1].path = ""
    /\ last.reqs[1].expires = Some(0)

\* C7 as stated: a call that supplies no bucket uses the default bucket that was
\* configured at startup, whatever the settings hold later.
C7_Original ==
    (last.op # "none" /\ last.bucket = None)
        => \A i \in 1..Len(last.reqs) :
               last.reqs[i].bucket = StartupSettings.SUPABASE_BUCKET

\* C7, amended: the client is created once from the URL and credential of
\* startup, is never replaced and carries every request, whatever the settings
\* hold later; the default bucket is read from the settings at each call.
C7_ConfigBinding ==
    [][/\ client' = client
       /\ client = create_client(StartupSettings.SUPABASE_URL,
                                 StartupSettings.SUPABASE_SERVICE_ROLE)
       /\ last' # last
              => \A i \in 1..Len(last'.reqs) :
                     /\ last'.reqs[i].client = client
                     /\ last'.bucket = None
                            => last'.reqs[i].bucket = settings.SUPABASE_BUCKET]_vars

\* After the settings were reassigned, a call without bucket went to the new
\* default bucket through the client of startup.
C7_Witness ==
    /\ last.op = "upload_bytes"
    /\ last.bucket = None
    /\ last.reqs[1].bucket # StartupSettings.SUPABASE_BUCKET
    /\ settings.SUPABASE_URL # StartupSettings.SUPABASE_URL
    /\ last.reqs[1].client.url = StartupSettings.SUPABASE_URL

\* C8: a successful upload_bytes returns exactly the path it was given, after
\* its one upload request has completed (the payload is stored).
C8_ReturnsPath ==
    (last.op = "upload_bytes" /\ last.outcome = "returned")
        => /\ last.ret = Some(last.path)
           /\ Len(last.reqs) = 1
           /\ last.reqs[1].path = last.path
           /\ store[<<last.reqs[1].bucket, last.path>>] = last.data

\* upload_bytes into an explicit bucket returned its path.
C8_Witness ==
    /\ last.op = "upload_bytes"
    /\ last.outcome = "returned"
    /\ last.bucket = Some("archive")
    /\ last.ret = Some("a.pdf")

\* C9: every signed_url call sends exactly one create_signed_url request with
\* the caller's path and ttl (60 when none is given), and what it returns is
\* the URL of the response to that request.
C9_OneRequestPerCall ==
    last.op = "signed_url"
        => /\ Len(last.reqs) = 1
           /\ last.reqs[1].method = "create_signed_url"
           /\ last.reqs[1].path = last.path
           /\ last.reqs[1].expires = Some(Ttl(last))
           /\ last.outcome = "returned"
                  => \E k \in Keys : last.ret = Get(last.res, k)

\* A signed_url call without ttl asked for 60 seconds and returned a URL.
C9_Witness ==
    /\ last.op = "signed_url"
    /\ last.expires = None
    /\ last.outcome = "returned"
    /\ last.reqs[1].expires = Some(60)
    /\ last.ret = Some("https://s/2")

\* C10: signed_url changes no object; an object changes only by a successful
\* upload_bytes, and then only the object at the call's (bucket, path); a failed
\* upload_bytes leaves the client, the settings and the objects as they were.
C10_Frame ==
    [][/\ last'.op = "signed_url" => store' = store
       /\ \A k \in DOMAIN store :
              store'[k] # store[k]
                  => /\ last'.op = "upload_bytes"
                     /\ last'.outcome = "returned"
                     /\ k = <<CallBucket(last'.bucket, settings.SUPABASE_BUCKET),
                              last'.path>>
       /\ (last' # last /\ last'.op = "upload_bytes" /\ last'.outcome = "raised")
              => /\ client' = client
                 /\ settings' = settings
                 /\ store' = store]_vars

\* An upload succeeded while another object was stored, which is still there.
C10_Witness ==
    /\ last.op = "upload_bytes"
    /\ last.outcome = "returned"
    /\ \E k \in DOMAIN store :
           /\ k # <<last.reqs[1].bucket, last.path>>
           /\ store[k] # None
           /\ store[k] = uploaded[k]

====
